---------------------------- MODULE Spec2Model ----------------------------
(***************************************************************************)
(* A model of PolyMapper (src/src/components/PolyMapper.tsx): the People   *)
(* and Relationships sequences, the relationship form's selection, the     *)
(* file export and the asynchronous import, the viewport and the gestures  *)
(* of the canvas, and the handlers that change them.                       *)
(*                                                                         *)
(* Encodings.  A JavaScript string is a sequence of one-character strings. *)
(* An id is a natural number: ids come from Date.now().toString(), which   *)
(* is injective on the clock reading, and the id 0 stands for the empty    *)
(* string '' (the only falsy id).  The value `undefined' of an optional    *)
(* field is Undefined (customPattern) or UndefinedLabel (customLabel).     *)
(* A number is an exact fraction [num, den].                               *)
(***************************************************************************)
EXTENDS Integers, Sequences, FiniteSets, TLC

VARIABLES
    people,         \* useState<Person[]>
    relationships,  \* useState<Relationship[]>
    selectedFrom,   \* useState<string>, '' is 0
    selectedTo,     \* useState<string>, '' is 0
    pending,        \* the FileReaders whose onload has not run yet
    now,            \* the reading of Date.now()
    exported,       \* the file exportData downloaded last
    isMobile,       \* useIsMobile()
    isDragging,     \* useState(false)
    draggedPerson,  \* useState<Person | null>(null)
    isPanning,      \* useState(false)
    panOffset,      \* useState({ x: 0, y: 0 })
    lastPanPoint,   \* useState({ x: 0, y: 0 })
    zoomLevel,      \* useState(1.0)
    isZooming,      \* useState(false)
    lastZoomDistance,   \* useState(0)
    zoomRun,        \* the zoom button presses in a row since the zoom was 1.0
    lastEvent       \* the handler of the store, the files or the buttons
                    \* that ran last, and the toast it raised

\* The state of the canvas: the device, the gesture and the viewport.
canvas ==
    <<isMobile, isDragging, draggedPerson, isPanning, panOffset, lastPanPoint,
      zoomLevel, isZooming, lastZoomDistance, zoomRun>>

vars ==
    <<people, relationships, selectedFrom, selectedTo, pending, now, exported,
      canvas, lastEvent>>

-----------------------------------------------------------------------------
(* Bounds of the model. *)

MaxClock == 3
MaxPending == 2
MaxPan == 100
MaxRun == 8

-----------------------------------------------------------------------------
(* Program constants. *)

MaxNameLen == 50
canvasWidth == 800
canvasHeight == 600
SpawnMargin == 50

nodeColors == <<"#ec4899", "#8b5cf6", "#3b82f6", "#10b981", "#f59e0b", "#ef4444">>

relationshipTypes ==
    {"committed-nesting", "committed", "budding", "sexual", "platonic",
     "queer-platonic", "partner", "play", "custom"}

Undefined == "undefined"
UndefinedLabel == <<"undefined">>

-----------------------------------------------------------------------------
(* Strings. *)

Rep(c, n) == [i \in 1..n |-> c]

IsSpace(c) == c = " "

RECURSIVE TrimStart(_)
TrimStart(s) ==
    IF s = <<>> \/ ~IsSpace(Head(s)) THEN s ELSE TrimStart(Tail(s))

RECURSIVE TrimEnd(_)
TrimEnd(s) ==
    IF s = <<>> \/ ~IsSpace(s[Len(s)]) THEN s
    ELSE TrimEnd(SubSeq(s, 1, Len(s) - 1))

Trim(s) == TrimEnd(TrimStart(s))

\* s.replace(/<[^>]*>/g, ''): from a "<", the match runs to the first ">"
\* after it; a "<" with no ">" after it is kept.
RECURSIVE StripTags(_)
StripTags(s) ==
    IF s = <<>> THEN <<>>
    ELSE IF Head(s) # "<" THEN <<Head(s)>> \o StripTags(Tail(s))
    ELSE LET closing == {j \in 2..Len(s) : s[j] = ">"}
         IN  IF closing # {}
             THEN LET j == CHOOSE k \in closing : \A m \in closing : k <= m
                  IN  StripTags(SubSeq(s, j + 1, Len(s)))
             ELSE <<Head(s)>> \o StripTags(Tail(s))

\* s.replace(/[<>\"'&]/g, '')
StripSpecial(s) == SelectSeq(s, LAMBDA c : c \notin {"<", ">", "\"", "'", "&"})

\* s.substring(0, n)
Substring0(s, n) == SubSeq(s, 1, IF Len(s) < n THEN Len(s) ELSE n)

sanitizeName(name) ==
    Substring0(StripSpecial(StripTags(Trim(name))), MaxNameLen)

LowerChar(c) ==
    CASE c = "A" -> "a"
      [] c = "B" -> "b"
      [] OTHER -> c

toLowerCase(s) == [i \in 1..Len(s) |-> LowerChar(s[i])]

-----------------------------------------------------------------------------
(* Numbers.  A JavaScript number is an exact fraction in lowest terms. *)

Abs(k) == IF k < 0 THEN -k ELSE k

RECURSIVE GCD(_, _)
GCD(a, b) == IF b = 0 THEN a ELSE GCD(b, a % b)

\* n / d, for d other than 0.
Q(n, d) ==
    LET g == GCD(Abs(n), Abs(d))
        sign == IF d < 0 THEN -1 ELSE 1
    IN  [num |-> (sign * n) \div g, den |-> (sign * d) \div g]

Num(k) == [num |-> k, den |-> 1]

\* The numerators of a and b over their least common denominator.
Scaled(a, b) ==
    LET g == GCD(a.den, b.den)
    IN  [a |-> a.num * (b.den \div g), b |-> b.num * (a.den \div g),
         den |-> a.den * (b.den \div g)]

Plus(a, b) == LET s == Scaled(a, b) IN Q(s.a + s.b, s.den)
Minus(a, b) == LET s == Scaled(a, b) IN Q(s.a - s.b, s.den)

Times(a, b) ==
    LET x == Q(a.num, b.den)
        y == Q(b.num, a.den)
    IN  Q(x.num * y.num, x.den * y.den)

Over(a, b) == Times(a, Q(b.den, b.num))

Less(a, b) == LET s == Scaled(a, b) IN s.a < s.b
LessEq(a, b) == LET s == Scaled(a, b) IN s.a <= s.b

\* Math.min and Math.max
MathMin(a, b) == IF Less(b, a) THEN b ELSE a
MathMax(a, b) == IF Less(a, b) THEN b ELSE a

Point(x, y) == [x |-> x, y |-> y]

-----------------------------------------------------------------------------
(* Inputs. *)

\* Math.random() * (canvasSize.width - 100) + 50, and the same for height.
SpawnPoints == { Point(Num(SpawnMargin), Num(SpawnMargin)) }

\* Values of Math.random(), which lie in [0, 1): the least and one close to
\* the greatest.
Randoms == { Q(0, 1), Q(999, 1000) }

\* A position that uses the whole canvas.
spawnNoMargin(rx, ry) ==
    Point(Times(rx, Num(canvasWidth)), Times(ry, Num(canvasHeight)))

\* The x and y of newPerson, for the two values of Math.random().
spawn(rx, ry) ==
    Point(Plus(Times(rx, Num(canvasWidth - 100)), Num(50)),
          Plus(Times(ry, Num(canvasHeight - 100)), Num(50)))

-----------------------------------------------------------------------------
(* Import documents: what JSON.parse gives for the file chosen. *)

Person(id, name, x, y, color) ==
    [id |-> id, name |-> name, x |-> x, y |-> y, color |-> color]

Relationship(id, from, to, type, customLabel, customPattern) ==
    [id |-> id, from |-> from, to |-> to, type |-> type,
     customLabel |-> customLabel, customPattern |-> customPattern]

\* A coordinate whose typeof is not 'number': null.
NonNumeric == [num |-> 0, den |-> 0]

\* Infinity, a number: what JSON.parse gives for 1e999.
NotFinite == [num |-> 1, den |-> 0]

Array(items) == [kind |-> "array", items |-> items]
NotArray == [kind |-> "string", items |-> <<>>]

\* A key the document does not have.
Missing == [kind |-> "undefined", items |-> <<>>]

Document(size, parses, ps, rs) ==
    [size |-> size, parses |-> parses, people |-> ps, relationships |-> rs]

\* A document every check of importData accepts, though its people share an
\* id and a name and its relationships share an id and a pair and point at
\* a person that is not in it.
DocLoose ==
    Document("small", TRUE,
        Array(<< Person(1, <<"a">>, Num(50), Num(50), nodeColors[1]),
                 Person(1, <<"A">>, Num(400), Num(300), nodeColors[2]) >>),
        Array(<< Relationship(1, 1, 3, "committed", UndefinedLabel, Undefined),
                 Relationship(1, 3, 1, "platonic", UndefinedLabel, Undefined) >>))

\* { "people": "not an array", "relationships": [] }
DocNotArray == Document("small", TRUE, NotArray, Array(<<>>))

\* A person with no id.
DocBadPerson ==
    Document("small", TRUE,
        Array(<< Person(0, <<"a">>, Num(50), Num(50), nodeColors[1]) >>),
        Array(<<>>))

\* Text that is not JSON.
DocUnparsable == Document("small", FALSE, NotArray, NotArray)

\* { "relationships": [] }
DocMissing == Document("small", TRUE, Missing, Array(<<>>))

\* A person whose name is ''.
DocNoName ==
    Document("small", TRUE,
        Array(<< Person(2, <<>>, Num(50), Num(50), nodeColors[1]) >>),
        Array(<<>>))

\* A person whose x is null.
DocBadX ==
    Document("small", TRUE,
        Array(<< Person(2, <<"c">>, NonNumeric, Num(50), nodeColors[1]) >>),
        Array(<<>>))

\* A person whose x is written 1e999.
DocInfinite ==
    Document("small", TRUE,
        Array(<< Person(2, <<"c">>, NotFinite, Num(50), nodeColors[1]) >>),
        Array(<<>>))

\* A file over 1MB.
DocLarge == Document("large", TRUE, Array(<<>>), Array(<<>>))

\* A map of one person.
DocSolo ==
    Document("small", TRUE,
        Array(<< Person(32, <<"d">>, Num(60), Num(60), nodeColors[2]) >>),
        Array(<<>>))

\* A map of as many people as the palette has colours.
DocSix ==
    Document("small", TRUE,
        Array(<< Person(11, <<"c">>, Num(100), Num(100), nodeColors[1]),
                 Person(12, <<"d">>, Num(200), Num(100), nodeColors[2]),
                 Person(13, <<"e">>, Num(300), Num(100), nodeColors[3]),
                 Person(14, <<"f">>, Num(400), Num(100), nodeColors[4]),
                 Person(15, <<"g">>, Num(500), Num(100), nodeColors[5]),
                 Person(16, <<"h">>, Num(600), Num(100), nodeColors[6]) >>),
        Array(<< Relationship(21, 11, 12, "committed", UndefinedLabel,
                              Undefined) >>))

Documents ==
    {DocLoose, DocNotArray, DocBadPerson, DocUnparsable, DocLarge,
     DocMissing, DocNoName, DocBadX, DocInfinite}

-----------------------------------------------------------------------------
(* Helpers of the handlers. *)

\* `name' is the text of the name field when addPerson runs and `id' the
\* argument of removePerson and removeRelationship.
Event(handler, name, id, toast) ==
    [handler |-> handler, name |-> name, id |-> id, toast |-> toast]

\* A handler called with no argument.
Call(handler, toast) == Event(handler, <<>>, 0, toast)

NoToast == "none"

\* null, as the value of draggedPerson.
Null == Person(0, <<>>, Num(0), Num(0), "")

\* n presses of the zoom button of direction dir.
Run(dir, n) == [dir |-> dir, n |-> n]

\* Nothing has been downloaded.
NoFile == Document("none", FALSE, NotArray, NotArray)

Range(s) == {s[i] : i \in 1..Len(s)}

PersonIds(ps) == {p.id : p \in Range(ps)}

RelationshipIds(rels) == {rel.id : rel \in Range(rels)}

nameTakenExact(ps, sanitizedName) ==
    \E p \in Range(ps) : p.name = sanitizedName

\* people.some(p => p.name.toLowerCase() === sanitizedName.toLowerCase())
nameTaken(ps, sanitizedName) ==
    \E p \in Range(ps) : toLowerCase(p.name) = toLowerCase(sanitizedName)

existsDirected(rels, from, to) ==
    \E rel \in Range(rels) : rel.from = from /\ rel.to = to

\* relationships.some(rel => (rel.from === from && rel.to === to) ||
\*                           (rel.from === to && rel.to === from))
exists(rels, from, to) ==
    \E rel \in Range(rels) :
        \/ rel.from = from /\ rel.to = to
        \/ rel.from = to /\ rel.to = from

validPeopleIdOnly(ps) == \A person \in Range(ps) : person.id # 0

\* data.people.every(person => person.id && person.name &&
\*     typeof person.x === 'number' && typeof person.y === 'number')
validPeople(ps) ==
    \A person \in Range(ps) :
        /\ person.id # 0
        /\ person.name # <<>>
        /\ person.x # NonNumeric
        /\ person.y # NonNumeric

-----------------------------------------------------------------------------
(* The state after construction. *)

Init ==
    /\ people = <<>>
    /\ relationships = <<>>
    /\ selectedFrom = 0
    /\ selectedTo = 0
    /\ pending = <<>>
    /\ now = 1
    /\ exported = NoFile
    /\ isMobile = FALSE
    /\ isDragging = FALSE
    /\ draggedPerson = Null
    /\ isPanning = FALSE
    /\ panOffset = Point(Num(0), Num(0))
    /\ lastPanPoint = Point(Num(0), Num(0))
    /\ zoomLevel = Num(1)
    /\ isZooming = FALSE
    /\ lastZoomDistance = Num(0)
    /\ zoomRun = Run("none", 0)
    /\ lastEvent = Call("mount", NoToast)

-----------------------------------------------------------------------------
(* Handlers. *)

\* addPerson, with `name' the value of the name field and `pt' the random
\* position.
addPerson(name, pt) ==
    LET sanitizedName == sanitizeName(name)
    IN  /\ UNCHANGED <<relationships, selectedFrom, selectedTo, pending, now, exported, canvas>>
        /\ IF sanitizedName = <<>>
           THEN /\ lastEvent' = Event("addPerson", name, 0, "Please enter a valid name")
                /\ UNCHANGED people
           ELSE IF Len(sanitizedName) > MaxNameLen
           THEN /\ lastEvent' = Event("addPerson", name, 0, "Name must be 50 characters or less")
                /\ UNCHANGED people
           ELSE IF nameTaken(people, sanitizedName)
           THEN /\ lastEvent' = Event("addPerson", name, 0, "Person with this name already exists")
                /\ UNCHANGED people
           ELSE /\ people' = Append(people,
                       Person(now, sanitizedName, pt.x, pt.y,
                              nodeColors[(Len(people) % Len(nodeColors)) + 1]))
                /\ lastEvent' = Event("addPerson", name, 0, "Added to the map")

removePersonFromOnly(id) ==
    /\ people' = SelectSeq(people, LAMBDA p : p.id # id)
    /\ relationships' = SelectSeq(relationships, LAMBDA rel : rel.from # id)
    /\ lastEvent' = Event("removePerson", <<>>, id, NoToast)
    /\ UNCHANGED <<selectedFrom, selectedTo, pending, now, exported, canvas>>

\* removePerson(id); the trash button of a person's badge calls it with
\* that person's id.
removePerson(id) ==
    /\ people' = SelectSeq(people, LAMBDA p : p.id # id)
    /\ relationships' =
           SelectSeq(relationships, LAMBDA rel : rel.from # id /\ rel.to # id)
    /\ lastEvent' = Event("removePerson", <<>>, id, NoToast)
    /\ UNCHANGED <<selectedFrom, selectedTo, pending, now, exported, canvas>>

\* removeRelationship(id); the trash button of a relationship's row calls
\* it with that relationship's id.
removeRelationship(id) ==
    /\ relationships' = SelectSeq(relationships, LAMBDA rel : rel.id # id)
    /\ lastEvent' = Event("removeRelationship", <<>>, id, NoToast)
    /\ UNCHANGED <<people, selectedFrom, selectedTo, pending, now, exported, canvas>>

\* The relationship form is rendered only with two people or more.
formShown == Len(people) >= 2

\* <Select value={selectedFrom} onValueChange={setSelectedFrom}>: its items
\* are the people.
setSelectedFrom(id) ==
    /\ formShown
    /\ id \in PersonIds(people)
    /\ selectedFrom' = id
    /\ lastEvent' = Call("setSelectedFrom", NoToast)
    /\ UNCHANGED <<people, relationships, selectedTo, pending, now, exported, canvas>>

\* <Select value={selectedTo} onValueChange={setSelectedTo}>: its items are
\* the people other than selectedFrom.
setSelectedTo(id) ==
    /\ formShown
    /\ id \in PersonIds(people) \ {selectedFrom}
    /\ selectedTo' = id
    /\ lastEvent' = Call("setSelectedTo", NoToast)
    /\ UNCHANGED <<people, relationships, selectedFrom, pending, now, exported, canvas>>

\* The Add Relationship button is disabled while the custom label is blank.
buttonEnabled(selectedRelType, customLabel) ==
    ~(selectedRelType = "custom" /\ Trim(customLabel) = <<>>)

invalidSelectionAllowSelf(from, to) == from = 0 \/ to = 0

\* !selectedFrom || !selectedTo || selectedFrom === selectedTo
invalidSelection(from, to) == from = 0 \/ to = 0 \/ from = to

\* addRelationship, with the relationship type, the custom label and the
\* custom pattern the form holds.
addRelationship(selectedRelType, customLabel, customPattern) ==
    /\ formShown
    /\ buttonEnabled(selectedRelType, customLabel)
    /\ UNCHANGED <<people, pending, now, exported, canvas>>
    /\ IF invalidSelection(selectedFrom, selectedTo)
       THEN /\ lastEvent' = Call("addRelationship", "Please select two different people")
            /\ UNCHANGED <<relationships, selectedFrom, selectedTo>>
       ELSE IF selectedRelType = "custom" /\ Trim(customLabel) = <<>>
       THEN /\ lastEvent' = Call("addRelationship", "Please enter a custom relationship label")
            /\ UNCHANGED <<relationships, selectedFrom, selectedTo>>
       ELSE IF exists(relationships, selectedFrom, selectedTo)
       THEN /\ lastEvent' = Call("addRelationship", "Relationship already exists between these people")
            /\ UNCHANGED <<relationships, selectedFrom, selectedTo>>
       ELSE /\ relationships' = Append(relationships,
                   Relationship(now, selectedFrom, selectedTo, selectedRelType,
                       IF selectedRelType = "custom"
                       THEN sanitizeName(customLabel) ELSE UndefinedLabel,
                       IF selectedRelType = "custom"
                       THEN customPattern ELSE Undefined))
            /\ selectedFrom' = 0
            /\ selectedTo' = 0
            /\ lastEvent' = Call("addRelationship", "Added relationship")

\* JSON.stringify of a number: one that is not finite is written null.
stringifyNumber(v) == IF v.den = 0 THEN NonNumeric ELSE v

\* What JSON.parse reads back from JSON.stringify of a Person.
stringifyPerson(p) ==
    [p EXCEPT !.x = stringifyNumber(p.x), !.y = stringifyNumber(p.y)]

\* exportData: the store is downloaded as polycule-map.json.  The stores of
\* this model serialise to far less than 1MB.
exportData ==
    /\ exported' =
           Document("small", TRUE,
               Array([i \in 1..Len(people) |-> stringifyPerson(people[i])]),
               Array(relationships))
    /\ lastEvent' = Call("exportData", "Map exported successfully")
    /\ UNCHANGED <<people, relationships, selectedFrom, selectedTo, pending,
                   now, canvas>>

\* importData: the file chosen is handed to a FileReader unless it is over
\* 1MB.
importData(file) ==
    /\ UNCHANGED <<people, relationships, selectedFrom, selectedTo, now,
                   exported, canvas>>
    /\ IF file.size = "large"
       THEN /\ lastEvent' = Call("importData", "File too large (max 1MB)")
            /\ UNCHANGED pending
       ELSE /\ Len(pending) < MaxPending
            /\ pending' = Append(pending, file)
            /\ lastEvent' = Call("importData", NoToast)

\* importData by a user who chooses the next file when the last one has
\* been read.
importOne(file) ==
    /\ file.size = "large" \/ pending = <<>>
    /\ importData(file)

\* importData of the file exportData downloaded last.
importExported ==
    /\ exported # NoFile
    /\ importOne(exported)

\* A millisecond passes.
tick ==
    /\ now < MaxClock
    /\ now' = now + 1
    /\ UNCHANGED <<people, relationships, selectedFrom, selectedTo, pending,
                   exported, canvas, lastEvent>>

RemoveAt(s, i) == SubSeq(s, 1, i - 1) \o SubSeq(s, i + 1, Len(s))

onloadMerge(i) ==
    /\ i \in 1..Len(pending)
    /\ pending' = RemoveAt(pending, i)
    /\ UNCHANGED <<selectedFrom, selectedTo, now, exported, canvas>>
    /\ LET data == pending[i]
       IN  IF ~data.parses
           THEN /\ lastEvent' = Call("onload", "Error reading file")
                /\ UNCHANGED <<people, relationships>>
           ELSE IF data.people.kind # "array" \/ data.relationships.kind # "array"
           THEN /\ lastEvent' = Call("onload", "Invalid file format")
                /\ UNCHANGED <<people, relationships>>
           ELSE IF ~validPeople(data.people.items)
           THEN /\ lastEvent' = Call("onload", "Invalid people data format")
                /\ UNCHANGED <<people, relationships>>
           ELSE /\ people' = people \o data.people.items
                /\ relationships' = relationships \o data.relationships.items
                /\ lastEvent' = Call("onload", "Map imported successfully")

\* An onload that forgets setRelationships.
onloadPeopleOnly(i) ==
    /\ i \in 1..Len(pending)
    /\ pending' = RemoveAt(pending, i)
    /\ UNCHANGED <<selectedFrom, selectedTo, now, exported, canvas>>
    /\ LET data == pending[i]
       IN  IF ~data.parses
           THEN /\ lastEvent' = Call("onload", "Error reading file")
                /\ UNCHANGED <<people, relationships>>
           ELSE IF data.people.kind # "array" \/ data.relationships.kind # "array"
           THEN /\ lastEvent' = Call("onload", "Invalid file format")
                /\ UNCHANGED <<people, relationships>>
           ELSE IF ~validPeople(data.people.items)
           THEN /\ lastEvent' = Call("onload", "Invalid people data format")
                /\ UNCHANGED <<people, relationships>>
           ELSE /\ people' = data.people.items
                /\ UNCHANGED relationships
                /\ lastEvent' = Call("onload", "Map imported successfully")

\* reader.onload of the i-th read in flight.
onload(i) ==
    /\ i \in 1..Len(pending)
    /\ pending' = RemoveAt(pending, i)
    /\ UNCHANGED <<selectedFrom, selectedTo, now, exported, canvas>>
    /\ LET data == pending[i]
       IN  IF ~data.parses
           THEN /\ lastEvent' = Call("onload", "Error reading file")
                /\ UNCHANGED <<people, relationships>>
           ELSE IF data.people.kind # "array" \/ data.relationships.kind # "array"
           THEN /\ lastEvent' = Call("onload", "Invalid file format")
                /\ UNCHANGED <<people, relationships>>
           ELSE IF ~validPeople(data.people.items)
           THEN /\ lastEvent' = Call("onload", "Invalid people data format")
                /\ UNCHANGED <<people, relationships>>
           ELSE /\ people' = data.people.items
                /\ relationships' = data.relationships.items
                /\ lastEvent' = Call("onload", "Map imported successfully")

-----------------------------------------------------------------------------
(* The canvas: the viewport and the gestures.  A screen point is taken      *)
(* relative to the canvas's bounding rectangle, in CSS pixels.              *)

\* The store and the files, which the handlers of the viewport leave alone.
store ==
    <<people, relationships, selectedFrom, selectedTo, pending, now, exported>>

\* useIsMobile() gives another value: the window has been resized.
setIsMobile(mobile) ==
    /\ mobile # isMobile
    /\ isMobile' = mobile
    /\ lastEvent' = Call("setIsMobile", NoToast)
    /\ UNCHANGED <<store, isDragging, draggedPerson, isPanning, panOffset,
                   lastPanPoint, zoomLevel, isZooming, lastZoomDistance,
                   zoomRun>>

nodeRadius == IF isMobile THEN Num(35) ELSE Num(25)

MinZoom == Q(1, 2)
MaxZoom == Num(3)
ZoomFactor == Q(6, 5)

\* One more press of a zoom button in the direction dir.
NextRun(dir) ==
    IF zoomRun.dir \in {"none", dir}
    THEN Run(dir, IF zoomRun.n < MaxRun THEN zoomRun.n + 1 ELSE MaxRun)
    ELSE Run("broken", 0)

\* A reset of the pan offset alone.
resetViewKeepsZoom ==
    /\ isMobile
    /\ panOffset' = Point(Num(0), Num(0))
    /\ zoomRun' = Run("none", 0)
    /\ lastEvent' = Call("resetView", "View reset to center")
    /\ UNCHANGED <<store, isMobile, isDragging, draggedPerson, isPanning,
                   lastPanPoint, zoomLevel, isZooming, lastZoomDistance>>

\* resetView; the button is rendered on a mobile device only, as are the
\* two zoom buttons.
resetView ==
    /\ isMobile
    /\ panOffset' = Point(Num(0), Num(0))
    /\ zoomLevel' = Num(1)
    /\ zoomRun' = Run("none", 0)
    /\ lastEvent' = Call("resetView", "View reset to center")
    /\ UNCHANGED <<store, isMobile, isDragging, draggedPerson, isPanning,
                   lastPanPoint, isZooming, lastZoomDistance>>

zoomInUnclamped(z) == Times(z, ZoomFactor)

\* Math.min(3.0, zoomLevel * 1.2)
zoomInLevel(z) == MathMin(MaxZoom, Times(z, ZoomFactor))

\* Math.max(0.5, zoomLevel / 1.2)
zoomOutLevel(z) == MathMax(MinZoom, Over(z, ZoomFactor))

pinchLevelUnclamped(z, zoomFactor) == Times(z, zoomFactor)

\* Math.max(0.5, Math.min(3.0, zoomLevel * zoomFactor))
pinchLevel(z, zoomFactor) ==
    MathMax(MinZoom, MathMin(MaxZoom, Times(z, zoomFactor)))

zoomIn ==
    /\ isMobile
    /\ zoomLevel' = zoomInLevel(zoomLevel)
    /\ zoomRun' = NextRun("in")
    /\ lastEvent' = Call("zoomIn", "Zoomed")
    /\ UNCHANGED <<store, isMobile, isDragging, draggedPerson, isPanning,
                   panOffset, lastPanPoint, isZooming, lastZoomDistance>>

zoomOut ==
    /\ isMobile
    /\ zoomLevel' = zoomOutLevel(zoomLevel)
    /\ zoomRun' = NextRun("out")
    /\ lastEvent' = Call("zoomOut", "Zoomed")
    /\ UNCHANGED <<store, isMobile, isDragging, draggedPerson, isPanning,
                   panOffset, lastPanPoint, isZooming, lastZoomDistance>>

\* Math.sqrt(dx * dx + dy * dy), for two fingers on one horizontal or one
\* vertical line.
getTouchDistance(touches) ==
    IF Len(touches) < 2 THEN Num(0)
    ELSE LET dx == Minus(touches[1].x, touches[2].x)
             dy == Minus(touches[1].y, touches[2].y)
         IN  IF dy.num = 0 THEN Num(Abs(dx.num)) ELSE Num(Abs(dy.num))

\* getEventCoordinates, for the screen point of the mouse or of the first
\* finger; canvas.width / rect.width is the device pixel ratio that the
\* division undoes.
getEventCoordinates(pt) ==
    Point(Over(Minus(pt.x, panOffset.x), zoomLevel),
          Over(Minus(pt.y, panOffset.y), zoomLevel))

\* (coords.x - person.x) ** 2 + (coords.y - person.y) ** 2, the square of
\* dist.
distSquared(coords, person) ==
    Plus(Times(Minus(coords.x, person.x), Minus(coords.x, person.x)),
         Times(Minus(coords.y, person.y), Minus(coords.y, person.y)))

\* The places in people of the persons with dist < radius.
hits(coords, radius) ==
    {i \in 1..Len(people) :
        Less(distSquared(coords, people[i]), Times(radius, radius))}

\* A loop without the break: the last person within the radius.
lastHit(coords, radius) ==
    LET h == hits(coords, radius)
    IN  people[CHOOSE i \in h : \A j \in h : j <= i]

\* The person at which the for loop breaks.
firstHit(coords, radius) ==
    LET h == hits(coords, radius)
    IN  people[CHOOSE i \in h : \A j \in h : i <= j]

mouseRadius == Over(nodeRadius, zoomLevel)

touchRadius == Times(nodeRadius, zoomLevel)

handleMouseDown(pt) ==
    /\ UNCHANGED lastEvent
    /\ UNCHANGED <<store, isMobile, isPanning, panOffset, lastPanPoint,
                   zoomLevel, isZooming, lastZoomDistance, zoomRun>>
    /\ LET coords == getEventCoordinates(pt)
       IN  IF hits(coords, mouseRadius) # {}
           THEN /\ isDragging' = TRUE
                /\ draggedPerson' = firstHit(coords, mouseRadius)
           ELSE UNCHANGED <<isDragging, draggedPerson>>

handleTouchStart(touches) ==
    /\ UNCHANGED lastEvent
    /\ UNCHANGED <<store, isMobile, panOffset, zoomLevel, zoomRun>>
    /\ IF Len(touches) = 2 /\ isMobile
       THEN /\ isZooming' = TRUE
            /\ lastZoomDistance' = getTouchDistance(touches)
            /\ UNCHANGED <<isDragging, draggedPerson, isPanning, lastPanPoint>>
       ELSE IF Len(touches) = 1
       THEN LET coords == getEventCoordinates(touches[1])
                foundPerson == hits(coords, touchRadius) # {}
            IN  /\ UNCHANGED <<isZooming, lastZoomDistance>>
                /\ IF foundPerson
                   THEN /\ isDragging' = TRUE
                        /\ draggedPerson' = firstHit(coords, touchRadius)
                        /\ UNCHANGED <<isPanning, lastPanPoint>>
                   ELSE IF isMobile
                   THEN /\ isPanning' = TRUE
                        /\ lastPanPoint' = touches[1]
                        /\ UNCHANGED <<isDragging, draggedPerson>>
                   ELSE UNCHANGED <<isDragging, draggedPerson, isPanning,
                                    lastPanPoint>>
       ELSE UNCHANGED <<isDragging, draggedPerson, isPanning, lastPanPoint,
                        isZooming, lastZoomDistance>>

\* The position a drag to coords writes.
dragX(coords) ==
    MathMax(Over(Minus(nodeRadius, panOffset.x), zoomLevel),
            MathMin(Over(Minus(Minus(Num(canvasWidth), nodeRadius),
                               panOffset.x), zoomLevel),
                    coords.x))

dragY(coords) ==
    MathMax(Over(Minus(nodeRadius, panOffset.y), zoomLevel),
            MathMin(Over(Minus(Minus(Num(canvasHeight), nodeRadius),
                               panOffset.y), zoomLevel),
                    coords.y))

\* A map without the test of the id: every person is moved.
dragToEveryone(coords) ==
    [i \in 1..Len(people) |->
        [people[i] EXCEPT !.x = dragX(coords), !.y = dragY(coords)]]

\* prev.map(p => p.id === draggedPerson.id ? { ...p, x, y } : p)
dragTo(coords) ==
    [i \in 1..Len(people) |->
        IF people[i].id = draggedPerson.id
        THEN [people[i] EXCEPT !.x = dragX(coords), !.y = dragY(coords)]
        ELSE people[i]]

handleMouseMove(pt) ==
    /\ UNCHANGED lastEvent
    /\ UNCHANGED <<relationships, selectedFrom, selectedTo, pending, now,
                   exported, canvas>>
    /\ IF ~isDragging \/ draggedPerson = Null
       THEN UNCHANGED people
       ELSE people' = dragTo(getEventCoordinates(pt))

InPanBounds(offset) ==
    /\ LessEq(Num(-MaxPan), offset.x) /\ LessEq(offset.x, Num(MaxPan))
    /\ LessEq(Num(-MaxPan), offset.y) /\ LessEq(offset.y, Num(MaxPan))

handleTouchMove(touches) ==
    /\ UNCHANGED lastEvent
    /\ UNCHANGED <<relationships, selectedFrom, selectedTo, pending, now,
                   exported, isMobile, isDragging, draggedPerson, isPanning,
                   isZooming>>
    /\ IF Len(touches) = 2 /\ isZooming /\ isMobile
       THEN LET currentDistance == getTouchDistance(touches)
            IN  /\ IF Less(Num(0), lastZoomDistance)
                   THEN /\ zoomLevel' =
                               pinchLevel(zoomLevel,
                                   Over(currentDistance, lastZoomDistance))
                        /\ zoomRun' = Run("broken", 0)
                   ELSE UNCHANGED <<zoomLevel, zoomRun>>
                /\ lastZoomDistance' = currentDistance
                /\ UNCHANGED <<people, panOffset, lastPanPoint>>
       ELSE IF isDragging /\ draggedPerson # Null /\ Len(touches) = 1
       THEN /\ people' = dragTo(getEventCoordinates(touches[1]))
            /\ UNCHANGED <<panOffset, lastPanPoint, zoomLevel,
                           lastZoomDistance, zoomRun>>
       ELSE IF isPanning /\ isMobile /\ Len(touches) = 1
       THEN /\ panOffset' =
                   Point(Plus(panOffset.x, Minus(touches[1].x, lastPanPoint.x)),
                         Plus(panOffset.y, Minus(touches[1].y, lastPanPoint.y)))
            /\ InPanBounds(panOffset')
            /\ lastPanPoint' = touches[1]
            /\ UNCHANGED <<people, zoomLevel, lastZoomDistance, zoomRun>>
       ELSE UNCHANGED <<people, panOffset, lastPanPoint, zoomLevel,
                        lastZoomDistance, zoomRun>>

\* drawPerson under ctx.scale(zoomLevel, zoomLevel): the screen point of the
\* centre of the person's circle.
drawnAt(person) ==
    Point(Times(zoomLevel, Plus(person.x, panOffset.x)),
          Times(zoomLevel, Plus(person.y, panOffset.y)))

\* A mouse-up that forgets setDraggedPerson(null).
handleMouseUpKeepsPerson ==
    /\ isDragging' = FALSE
    /\ UNCHANGED lastEvent
    /\ UNCHANGED <<store, isMobile, draggedPerson, isPanning, panOffset,
                   lastPanPoint, zoomLevel, isZooming, lastZoomDistance,
                   zoomRun>>

\* A mouse-up that also puts the view back.
handleMouseUpResetsView ==
    /\ isDragging' = FALSE
    /\ draggedPerson' = Null
    /\ panOffset' = Point(Num(0), Num(0))
    /\ zoomLevel' = Num(1)
    /\ UNCHANGED lastEvent
    /\ UNCHANGED <<store, isMobile, isPanning, lastPanPoint, isZooming,
                   lastZoomDistance, zoomRun>>

\* handleMouseUp, also the handler of onMouseLeave.
handleMouseUp ==
    /\ isDragging' = FALSE
    /\ draggedPerson' = Null
    /\ UNCHANGED lastEvent
    /\ UNCHANGED <<store, isMobile, isPanning, panOffset, lastPanPoint,
                   zoomLevel, isZooming, lastZoomDistance, zoomRun>>

handleTouchEnd ==
    /\ isDragging' = FALSE
    /\ draggedPerson' = Null
    /\ isPanning' = FALSE
    /\ isZooming' = FALSE
    /\ lastZoomDistance' = Num(0)
    /\ UNCHANGED lastEvent
    /\ UNCHANGED <<store, isMobile, panOffset, lastPanPoint, zoomLevel,
                   zoomRun>>

-----------------------------------------------------------------------------

\* The steps of the program when the user's inputs are drawn from `in'.
NextOn(in) ==
    \/ \E name \in in.names, pt \in SpawnPoints : addPerson(name, pt)
    \/ \E id \in PersonIds(people) : removePerson(id)
    \/ \E id \in RelationshipIds(relationships) : removeRelationship(id)
    \/ \E id \in PersonIds(people) : setSelectedFrom(id)
    \/ \E id \in PersonIds(people) \ {selectedFrom} : setSelectedTo(id)
    \/ \E t \in in.types, l \in in.labels, p \in in.patterns :
           addRelationship(t, l, p)
    \/ \E file \in in.files : importOne(file)
    \/ \E i \in 1..MaxPending : onload(i)
    \/ tick

Inputs(names, types, labels, patterns, files) ==
    [names |-> names, types |-> types, labels |-> labels,
     patterns |-> patterns, files |-> files]

\* The people profile: names that differ in case, in blanks and in markup,
\* and one too long.
PeopleInputs ==
    Inputs({ <<"a">>, <<" ", "A", " ">>, <<"<", "b", ">">>, <<>>,
             Rep("b", MaxNameLen + 1) },
           {"committed"}, {<<"a">>}, {"solid"},
           {DocLoose, DocNotArray, DocLarge})

\* The relationships profile: three plain names and a predefined type.
RelationshipInputs ==
    Inputs({ <<"a">>, <<"b">>, <<"a", "b">> },
           {"committed"}, {<<"a">>}, {"solid"},
           {DocLoose, DocLarge})

\* The custom type profile: labels that are plain, markup only and blank,
\* with every line pattern.
CustomInputs ==
    Inputs({ <<"a">>, <<"b">> },
           {"committed", "custom"}, { <<"a">>, <<"<", ">">>, <<" ">> },
           {"solid", "dashed", "dotted"},
           {DocBadPerson, DocUnparsable, DocLarge})

\* The files profile: documents that importData accepts and documents it
\* must refuse.
FileInputs ==
    Inputs({ <<"b">> }, {"committed"}, {<<"a">>}, {"solid"},
           {DocLoose, DocInfinite, DocNotArray, DocMissing, DocNoName,
            DocBadX, DocUnparsable, DocLarge})

Next == NextOn(PeopleInputs)

Spec == Init /\ [][Next]_vars

NextRelationships == NextOn(RelationshipInputs)

SpecRelationships == Init /\ [][NextRelationships]_vars

\* The steps that change the store and the files, the relationship form
\* left alone.
NextFiles ==
    \/ \E name \in FileInputs.names, pt \in SpawnPoints : addPerson(name, pt)
    \/ \E id \in PersonIds(people) : removePerson(id)
    \/ \E id \in RelationshipIds(relationships) : removeRelationship(id)
    \/ \E file \in FileInputs.files : importOne(file)
    \/ \E i \in 1..MaxPending : onload(i)
    \/ exportData
    \/ importExported
    \/ tick

SpecFiles == Init /\ [][NextFiles]_vars

\* One finger at pt, and two fingers a distance apart.
Finger(x, y) == << Point(Num(x), Num(y)) >>
Fingers(distance) ==
    << Point(Num(0), Num(0)), Point(Num(distance), Num(0)) >>

\* The zoom profile: the zoom buttons, and pinches whose distances are in
\* the ratio of a button press, in a ratio that saturates, and 0.
ZoomTouches ==
    { Finger(0, 0), Finger(100, 0),
      Fingers(0), Fingers(5), Fingers(6), Fingers(36) }

ZoomPoints == { Point(Num(0), Num(0)) }

\* The steps of the viewport, on an empty map.
NextZoom ==
    \/ \E mobile \in BOOLEAN : setIsMobile(mobile)
    \/ resetView
    \/ zoomIn
    \/ zoomOut
    \/ \E pt \in ZoomPoints : handleMouseDown(pt)
    \/ \E pt \in ZoomPoints : handleMouseMove(pt)
    \/ handleMouseUp
    \/ \E touches \in ZoomTouches : handleTouchStart(touches)
    \/ \E touches \in ZoomTouches : handleTouchMove(touches)
    \/ handleTouchEnd

SpecZoom == Init /\ [][NextZoom]_vars

\* The gestures profile: one person on the map, presses beside it, on it
\* and to the right of the canvas, and pinches that take the zoom to its
\* least and its greatest level.
GestureNames == { <<"a">> }

GesturePoints == { Point(Num(200), Num(100)), Point(Num(900), Num(100)) }

GestureTouches ==
    { Finger(100, 100), Finger(200, 100), Fingers(100), Fingers(600) }

\* The steps of the map and its canvas, the zoom changed by pinches only.
NextGestures ==
    \/ \E name \in GestureNames, pt \in SpawnPoints : addPerson(name, pt)
    \/ \E id \in PersonIds(people) : removePerson(id)
    \/ \E mobile \in BOOLEAN : setIsMobile(mobile)
    \/ resetView
    \/ \E pt \in GesturePoints : handleMouseDown(pt)
    \/ \E pt \in GesturePoints : handleMouseMove(pt)
    \/ handleMouseUp
    \/ \E touches \in GestureTouches : handleTouchStart(touches)
    \/ \E touches \in GestureTouches : handleTouchMove(touches)
    \/ handleTouchEnd

SpecGestures == Init /\ [][NextGestures]_vars

\* Two persons on a desktop canvas: both are added at the same place, so that
\* their circles overlap until one of them is dragged away.
HitNames == { <<"a">>, <<"b">> }

HitPoints == { Point(Num(60), Num(60)), Point(Num(200), Num(100)) }

HitTouches == { Finger(60, 60), Finger(200, 100) }

NextHits ==
    \/ \E name \in HitNames, pt \in SpawnPoints : addPerson(name, pt)
    \/ \E id \in PersonIds(people) : removePerson(id)
    \/ tick
    \/ \E pt \in HitPoints : handleMouseDown(pt)
    \/ \E pt \in HitPoints : handleMouseMove(pt)
    \/ handleMouseUp
    \/ \E touches \in HitTouches : handleTouchStart(touches)
    \/ \E touches \in HitTouches : handleTouchMove(touches)
    \/ handleTouchEnd

SpecHits == Init /\ [][NextHits]_vars

\* Adding persons at the ends of the range of positions, to a map that may
\* already hold as many people as there are colours.
PaletteNames == { <<"a">>, <<"b">> }

NextPalette ==
    \/ \E name \in PaletteNames, rx \in Randoms, ry \in Randoms :
          addPerson(name, spawn(rx, ry))
    \/ \E id \in PersonIds(people) : removePerson(id)
    \/ importOne(DocSix)
    \/ \E i \in 1..MaxPending : onload(i)

SpecPalette == Init /\ [][NextPalette]_vars

\* The whole of the store's handlers on a mobile layout whose view is panned
\* and pinched by fingers that touch no person.
ViewNames == { <<"c">> }

\* Where the fingers go down, and where they move to.
ViewStarts == { Finger(700, 500), Fingers(100) }

ViewMoves == { Finger(800, 500), Fingers(600) }

NextView ==
    \/ \E name \in ViewNames, pt \in SpawnPoints : addPerson(name, pt)
    \/ \E id \in PersonIds(people) : removePerson(id)
    \/ \E id \in RelationshipIds(relationships) : removeRelationship(id)
    \/ \E id \in PersonIds(people) : setSelectedFrom(id)
    \/ \E id \in PersonIds(people) \ {selectedFrom} : setSelectedTo(id)
    \/ addRelationship("committed", <<>>, "solid")
    \/ exportData
    \/ importOne(DocSolo)
    \/ \E i \in 1..MaxPending : onload(i)
    \/ setIsMobile(TRUE)
    \/ resetView
    \/ \E touches \in ViewStarts : handleTouchStart(touches)
    \/ \E touches \in ViewMoves : handleTouchMove(touches)
    \/ handleTouchEnd

SpecView == Init /\ [][NextView]_vars

\* Reads of several files in flight at once, which complete in any order
\* while persons are added, removed and dragged.
ReadNames == { <<"b">> }

ReadFiles == { DocLoose, DocSolo, DocBadPerson, DocUnparsable }

NextReads ==
    \/ \E name \in ReadNames, pt \in SpawnPoints : addPerson(name, pt)
    \/ \E id \in PersonIds(people) : removePerson(id)
    \/ \E file \in ReadFiles : importData(file)
    \/ \E i \in 1..MaxPending : onload(i)
    \/ \E pt \in HitPoints : handleMouseDown(pt)
    \/ \E pt \in HitPoints : handleMouseMove(pt)
    \/ handleMouseUp

SpecReads == Init /\ [][NextReads]_vars

NextCustom == NextOn(CustomInputs)

SpecCustom == Init /\ [][NextCustom]_vars

-----------------------------------------------------------------------------
(* Claims. *)

Touches(rel, id) == rel.from = id \/ rel.to = id

Pair(rel) == {rel.from, rel.to}

\* C1: in every reachable state every Relationship's from and to are ids of
\* People in the store: no dangling reference exists.
NoDanglingReference ==
    \A rel \in Range(relationships) :
        rel.from \in PersonIds(people) /\ rel.to \in PersonIds(people)

\* C2: removePerson(id) leaves no Person with that id and no Relationship
\* with from = id or to = id, and keeps every Relationship that touches
\* neither endpoint, in its original order.
RemovePersonCascades ==
    [][lastEvent'.handler = "removePerson" =>
           LET id == lastEvent'.id
           IN  /\ id \notin PersonIds(people')
               /\ \A rel \in Range(relationships') : ~Touches(rel, id)
               /\ relationships' =
                      SelectSeq(relationships, LAMBDA rel : ~Touches(rel, id))]_vars

\* removePerson has run on a graph of which a Relationship and its two
\* People are left.
RemovePersonKeptRelationship ==
    /\ lastEvent.handler = "removePerson"
    /\ lastEvent.id \notin PersonIds(people)
    /\ Len(people) >= 2
    /\ relationships # <<>>
    /\ NoDanglingReference

\* C3: in every reachable state there is at most one Relationship between
\* any unordered pair of Person ids.
OneRelationshipPerPair ==
    \A i, j \in 1..Len(relationships) :
        i # j => Pair(relationships[i]) # Pair(relationships[j])

\* C4: once addRelationship(a, b, t) has stored a Relationship, an
\* addRelationship(b, a, t') with that Relationship still in the store is
\* rejected as a duplicate and leaves Relationships unchanged.
SwappedPairRejected ==
    [][( /\ lastEvent'.handler = "addRelationship"
         /\ selectedFrom # 0 /\ selectedTo # 0 /\ selectedFrom # selectedTo
         /\ \E rel \in Range(relationships) :
                rel.from = selectedTo /\ rel.to = selectedFrom )
       => /\ relationships' = relationships
          /\ lastEvent'.toast = "Relationship already exists between these people"]_vars

\* addRelationship has been rejected as a duplicate of a Relationship stored
\* in the other direction.
SwappedPairWasRejected ==
    /\ lastEvent = Call("addRelationship",
                        "Relationship already exists between these people")
    /\ \E rel \in Range(relationships) :
           rel.from = selectedTo /\ rel.to = selectedFrom
    /\ ~ \E rel \in Range(relationships) :
           rel.from = selectedFrom /\ rel.to = selectedTo

\* C5: addRelationship is rejected, leaving Relationships unchanged,
\* whenever selectedFrom or selectedTo is not the id of a Person in the
\* store.
UnknownEndpointRejected ==
    [][( /\ lastEvent'.handler = "addRelationship"
         /\ \/ selectedFrom \notin PersonIds(people)
            \/ selectedTo \notin PersonIds(people) )
       => relationships' = relationships]_vars

\* C6: addPerson of a name that equals, case-insensitively after
\* sanitization, the name of a Person in the store is rejected: People is
\* the same before and after the call.
DuplicateNameRejected ==
    [][( /\ lastEvent'.handler = "addPerson"
         /\ \E n \in {sanitizeName(lastEvent'.name)} :
                \E p \in Range(people) : toLowerCase(p.name) = toLowerCase(n) )
       => people' = people]_vars

\* addPerson has been rejected for a name that a stored Person holds in
\* another case.
DuplicateNameWasRejected ==
    /\ lastEvent = Event("addPerson", <<" ", "A", " ">>, 0,
                         "Person with this name already exists")
    /\ \E p \in Range(people) : p.name = <<"a">>

\* C7: in every reachable state Person names are non-empty, at most 50
\* characters, and pairwise distinct case-insensitively.
NamesWellFormed ==
    /\ \A p \in Range(people) : p.name # <<>> /\ Len(p.name) <= MaxNameLen
    /\ \A i, j \in 1..Len(people) :
           i # j => toLowerCase(people[i].name) # toLowerCase(people[j].name)

\* C8: in every reachable state Person ids are pairwise distinct.
PersonIdsDistinct ==
    \A i, j \in 1..Len(people) : i # j => people[i].id # people[j].id

\* C9: in every reachable state Relationship ids are pairwise distinct, so
\* that removeRelationship(id) removes at most one Relationship.
RelationshipIdsDistinct ==
    \A i, j \in 1..Len(relationships) :
        i # j => relationships[i].id # relationships[j].id

\* C10: addRelationship with type custom is rejected, leaving Relationships
\* unchanged, whenever the custom label is empty after sanitization.
EmptyCustomLabelRejected ==
    [][\A l \in CustomInputs.labels, p \in CustomInputs.patterns :
           (addRelationship("custom", l, p) /\ sanitizeName(l) = <<>>)
           => relationships' = relationships]_vars

\* C11: every addPerson and addRelationship that reports an error leaves
\* People and Relationships as they were, and no add operation stores a
\* Relationship whose from equals its to.
RejectionLeavesStore ==
    [][ /\ ( /\ lastEvent'.handler = "addPerson"
             /\ lastEvent'.toast # "Added to the map" )
           => people' = people /\ relationships' = relationships
        /\ ( /\ lastEvent'.handler = "addRelationship"
             /\ lastEvent'.toast # "Added relationship" )
           => people' = people /\ relationships' = relationships
        /\ lastEvent'.handler \in {"addPerson", "addRelationship"}
           => \A rel \in Range(relationships') :
                  rel \notin Range(relationships) => rel.from # rel.to ]_vars

\* addRelationship has been rejected for a person selected on both sides,
\* with a Relationship in the store.
SelfRelationshipWasRejected ==
    /\ lastEvent = Call("addRelationship", "Please select two different people")
    /\ selectedFrom # 0
    /\ selectedFrom = selectedTo
    /\ relationships # <<>>

\* C12: exportData writes a document whose people and relationships equal
\* the store's, and importing the exported document succeeds and stores
\* those sequences: export then import is the identity.
ExportImportRoundTrip ==
    [][ /\ lastEvent'.handler = "exportData"
           => /\ exported'.people.items = people
              /\ exported'.relationships.items = relationships
        /\ lastEvent'.handler = "onload"
           => \A i \in 1..Len(pending) :
                  (pending' = RemoveAt(pending, i) /\ pending[i] = exported)
                  => /\ lastEvent'.toast = "Map imported successfully"
                     /\ people' = exported.people.items
                     /\ relationships' = exported.relationships.items ]_vars

\* A document the import must refuse.
Malformed(doc) ==
    \/ ~doc.parses
    \/ doc.size = "large"
    \/ doc.people.kind # "array"
    \/ doc.relationships.kind # "array"
    \/ \E person \in Range(doc.people.items) :
           \/ person.id = 0
           \/ person.name = <<>>
           \/ person.x = NonNumeric
           \/ person.y = NonNumeric

ImportErrors ==
    {"Error reading file", "Invalid file format", "Invalid people data format"}

\* C13: no file over 1MB is read, and reading a document that is
\* unparsable, lacks people or relationships or has one that is no
\* sequence, or holds a person without an id, a name or numeric x and y
\* reports an error and leaves People and Relationships unchanged.
MalformedImportRejected ==
    [][ /\ lastEvent'.handler = "importData"
           => /\ people' = people /\ relationships' = relationships
              /\ \A doc \in Range(pending') : doc.size # "large"
        /\ lastEvent'.handler = "onload"
           => \A i \in 1..Len(pending) :
                  (pending' = RemoveAt(pending, i) /\ Malformed(pending[i]))
                  => /\ lastEvent'.toast \in ImportErrors
                     /\ people' = people
                     /\ relationships' = relationships ]_vars

\* A document with a person whose x is not a number has been refused with
\* people in the store.
MalformedImportWasRejected ==
    /\ lastEvent = Call("onload", "Invalid people data format")
    /\ people # <<>>
    /\ relationships # <<>>

\* C14: a successful import replaces the store with the document: People
\* and Relationships are the document's, both in the one step.
ImportReplacesStore ==
    [][ ( /\ pending' # pending
          /\ lastEvent'.handler = "onload"
          /\ lastEvent'.toast = "Map imported successfully" )
        => \E i \in 1..Len(pending) :
               /\ pending' = RemoveAt(pending, i)
               /\ people' = pending[i].people.items
               /\ relationships' = pending[i].relationships.items ]_vars

\* A document has been imported over a graph that had been exported, and
\* none of that graph's people or relationships is left.
ImportReplacedGraph ==
    /\ lastEvent = Call("onload", "Map imported successfully")
    /\ exported # NoFile
    /\ exported.people.items # <<>>
    /\ exported.relationships.items # <<>>
    /\ Range(exported.people.items) \cap Range(people) = {}
    /\ Range(exported.relationships.items) \cap Range(relationships) = {}
    /\ people # <<>>

\* C15: in every reachable state the zoom level is at least 0.5 and at
\* most 3.0, whatever zoom buttons were pressed and whatever the finger
\* distances of the pinches were.
ZoomWithinRange ==
    /\ LessEq(MinZoom, zoomLevel)
    /\ LessEq(zoomLevel, MaxZoom)

\* A pinch whose fingers moved apart has left the zoom at 3.0.
PinchSaturated ==
    /\ zoomRun.dir = "broken"
    /\ isZooming
    /\ lastZoomDistance = Num(36)
    /\ zoomLevel = MaxZoom

\* C16: from zoom 1.0, seven presses of zoom-in in a row, or more, leave
\* the zoom at exactly 3.0, and four presses of zoom-out in a row, or more,
\* leave it at exactly 0.5; fewer presses leave it strictly between.
ZoomSaturates ==
    /\ zoomRun.dir = "in" =>
           IF zoomRun.n >= 7 THEN zoomLevel = MaxZoom
           ELSE Less(Num(1), zoomLevel) /\ Less(zoomLevel, MaxZoom)
    /\ zoomRun.dir = "out" =>
           IF zoomRun.n >= 4 THEN zoomLevel = MinZoom
           ELSE Less(MinZoom, zoomLevel) /\ Less(zoomLevel, Num(1))

\* Zoom-in has been pressed MaxRun times in a row, or more, from zoom 1.0.
ZoomInSaturated ==
    /\ lastEvent.handler = "zoomIn"
    /\ zoomRun = Run("in", MaxRun)
    /\ zoomLevel = MaxZoom

\* The screen point pt is at least nodeRadius inside every edge of the
\* canvas.
InsideCanvas(pt) ==
    /\ LessEq(nodeRadius, pt.x)
    /\ LessEq(pt.x, Minus(Num(canvasWidth), nodeRadius))
    /\ LessEq(nodeRadius, pt.y)
    /\ LessEq(pt.y, Minus(Num(canvasHeight), nodeRadius))

\* C17: every drag move, by mouse or by touch, writes to the dragged Person
\* a position whose screen point, under the pan and the zoom of the move,
\* is at least nodeRadius inside every edge of the canvas.
DragStaysInsideCanvas ==
    [][ (isDragging /\ Len(people') = Len(people))
        => \A i \in 1..Len(people) :
               people'[i] # people[i] => InsideCanvas(drawnAt(people'[i])) ]_vars

\* C18: in every reachable state at most one of isDragging, isPanning and
\* isZooming holds.
GestureModesExclusive ==
    /\ ~(isDragging /\ isPanning)
    /\ ~(isDragging /\ isZooming)
    /\ ~(isPanning /\ isZooming)

\* C19: in every reachable state getEventCoordinates takes the screen point
\* at which a Person's centre is drawn back to the Person's x and y, so
\* that a press there hits the Person.
ProjectionInverse ==
    \A i \in 1..Len(people) :
        LET coords == getEventCoordinates(drawnAt(people[i]))
        IN  /\ coords = Point(people[i].x, people[i].y)
            /\ i \in hits(coords, mouseRadius)
            /\ i \in hits(coords, touchRadius)

\* C20: in every reachable state a mouse-down and a one-finger touch-start
\* at the same screen point either hit the same Person or both miss.
HitTestConsistent ==
    \A pt \in GesturePoints :
        LET coords == getEventCoordinates(pt)
        IN  IF hits(coords, mouseRadius) = {}
            THEN hits(coords, touchRadius) = {}
            ELSE /\ hits(coords, touchRadius) # {}
                 /\ firstHit(coords, mouseRadius) = firstHit(coords, touchRadius)

\* No gesture is under way.
Idle ==
    /\ ~isDragging
    /\ ~isPanning
    /\ ~isZooming
    /\ draggedPerson = Null
    /\ lastZoomDistance = Num(0)

\* C21: every mouse-up, mouse-leave and touch-end leaves the canvas idle:
\* isDragging, isPanning and isZooming are false, draggedPerson is null and
\* lastZoomDistance is 0.
UpReturnsToIdle ==
    [][Idle' \/ ~(handleMouseUp \/ handleTouchEnd)]_vars

\* The person at place i is within the radius of the press at coords.
Covers(i, coords, radius) ==
    Less(distSquared(coords, people[i]), Times(radius, radius))

\* The first person in people within the radius, if there is one, becomes
\* the dragged person.
FirstWins(coords, radius) ==
    \A i \in 1..Len(people) :
        (/\ Covers(i, coords, radius)
         /\ \A j \in 1..(i - 1) : ~Covers(j, coords, radius))
        => isDragging' /\ draggedPerson' = people[i]

\* C22: a mouse-down or a touch-start within the hit radius of several
\* persons makes the one that comes first in people the dragged person.
FirstHitIsDragged ==
    [][/\ \A pt \in HitPoints :
            handleMouseDown(pt)
            => FirstWins(getEventCoordinates(pt), mouseRadius)
       /\ \A touches \in HitTouches :
            handleTouchStart(touches)
            => FirstWins(getEventCoordinates(touches[1]), touchRadius)]_vars

\* Two persons lie at one place and the first of them is being dragged.
FirstOfTwoDragged ==
    /\ Len(people) = 2
    /\ people[1].x = people[2].x
    /\ people[1].y = people[2].y
    /\ people[1].id # people[2].id
    /\ isDragging
    /\ draggedPerson = people[1]

\* The step is a mouse-down, a mouse-move, a mouse-up or a mouse-leave.
MouseStep ==
    \/ \E pt \in GesturePoints : handleMouseDown(pt)
    \/ \E pt \in GesturePoints : handleMouseMove(pt)
    \/ handleMouseUp

\* The step is a touch-start of one finger that misses every person, on a
\* mobile layout.
MissingTouchStep ==
    /\ isMobile
    /\ \E touches \in GestureTouches :
          /\ Len(touches) = 1
          /\ hits(getEventCoordinates(touches[1]), touchRadius) = {}
          /\ handleTouchStart(touches)

\* C23: no mouse event changes panOffset, zoomLevel, isPanning or isZooming,
\* and isPanning becomes true only by a one-finger touch-start that misses
\* every person on a mobile layout.
MouseNeverPansOrZooms ==
    [][/\ \/ UNCHANGED <<panOffset, zoomLevel, isPanning, isZooming>>
          \/ ~MouseStep
       /\ (isPanning' /\ ~isPanning) => MissingTouchStep]_vars

\* The person is being dragged and lies where only a mouse-move to the far
\* point puts it, under a panned and zoomed view.
MouseDraggedUnderView ==
    /\ isDragging
    /\ Len(people) = 1
    /\ panOffset.x # Num(0)
    /\ zoomLevel # Num(1)
    /\ people[1].x =
           dragX(getEventCoordinates(Point(Num(900), Num(100))))
    /\ Less(dragX(getEventCoordinates(Point(Num(900), Num(100)))),
            getEventCoordinates(Point(Num(900), Num(100))).x)

\* The step is a mouse-move or a one-finger touch-move during a drag.
DragStep ==
    /\ isDragging
    /\ draggedPerson # Null
    /\ \/ \E pt \in HitPoints : handleMouseMove(pt)
       \/ \E touches \in HitTouches :
             Len(touches) = 1 /\ handleTouchMove(touches)

\* Nothing but the x and y of the persons with the dragged id changes.
DragFrame ==
    /\ Len(people') = Len(people)
    /\ \A i \in 1..Len(people) :
          IF people[i].id = draggedPerson.id
          THEN people'[i] = [people[i] EXCEPT !.x = people'[i].x,
                                              !.y = people'[i].y]
          ELSE people'[i] = people[i]
    /\ UNCHANGED <<relationships, draggedPerson, panOffset, zoomLevel>>

\* C24: a drag move changes only the x and y of the person whose id is the
\* dragged person's id; every other person, the id, name and color of the
\* dragged one, the order and length of people, the relationships and the
\* view stay as they are.
DragMovesOnlyDragged ==
    [][DragFrame \/ ~DragStep]_vars

\* The second of two persons has been dragged away from where it was
\* pressed, and the first lies elsewhere.
SecondDraggedAway ==
    /\ Len(people) = 2
    /\ people[1].id # people[2].id
    /\ isDragging
    /\ draggedPerson.id = people[2].id
    /\ people[2].x # draggedPerson.x
    /\ people[1].x # people[2].x

\* The point is inside the canvas, at least 50px from every edge.
InsideMargin(pt) ==
    /\ LessEq(Num(50), pt.x) /\ LessEq(pt.x, Num(canvasWidth - 50))
    /\ LessEq(Num(50), pt.y) /\ LessEq(pt.y, Num(canvasHeight - 50))

GraphHandlers ==
    {"addPerson", "removePerson", "addRelationship", "removeRelationship",
     "exportData", "importData", "onload"}

\* The step is a call of a handler of the graph.
GraphStep ==
    /\ lastEvent'.handler \in GraphHandlers
    /\ \/ lastEvent' # lastEvent
       \/ <<people, relationships, pending, exported>>' #
              <<people, relationships, pending, exported>>

\* C26: resetView sets panOffset to (0, 0) and zoomLevel to 1.0 and leaves
\* people, relationships and the gesture mode as they are; no handler of the
\* graph changes panOffset or zoomLevel.
ResetOnlyResetsView ==
    [][/\ resetView
          => /\ panOffset' = Point(Num(0), Num(0))
             /\ zoomLevel' = Num(1)
             /\ UNCHANGED <<people, relationships, isDragging, draggedPerson,
                            isPanning, isZooming, lastZoomDistance>>
       /\ UNCHANGED <<panOffset, zoomLevel>> \/ ~GraphStep]_vars

\* The view has been reset in the middle of a pan, on a map that holds a
\* relationship.
ResetDuringPan ==
    /\ lastEvent.handler = "resetView"
    /\ panOffset = Point(Num(0), Num(0))
    /\ zoomLevel = Num(1)
    /\ isPanning
    /\ lastPanPoint.x = Num(800)
    /\ relationships # <<>>

\* C27: while isDragging is true draggedPerson is a person of the store: it
\* has the id of a person in people and is no stale copy of it.
DraggedPersonInStore ==
    isDragging => draggedPerson.id \in PersonIds(people)

\* C28: with reads in flight while persons are added, removed and dragged
\* and other files are chosen, every completion either fails and leaves
\* people and relationships as they were, or leaves both equal to those of
\* the one document it read.
CompletionIsOneDocument ==
    [][Len(pending') < Len(pending)
       => \E i \in 1..Len(pending) :
             /\ pending' = RemoveAt(pending, i)
             /\ IF Malformed(pending[i])
                THEN UNCHANGED <<people, relationships>>
                ELSE /\ people' = pending[i].people.items
                     /\ relationships' = pending[i].relationships.items]_vars

\* A read has completed and replaced the map while another read was in
\* flight and a person of the old map was being dragged.
ReadCompletedDuringDrag ==
    /\ lastEvent = Call("onload", "Map imported successfully")
    /\ pending = << DocLoose >>
    /\ people = DocSolo.people.items
    /\ relationships = DocSolo.relationships.items
    /\ isDragging
    /\ draggedPerson.id \notin PersonIds(people)

\* C29: isDragging is true exactly when draggedPerson is not null.
DraggingIffDraggedPerson ==
    isDragging <=> draggedPerson # Null

\* A person is being dragged and has been moved since the press.
DragUnderWay ==
    /\ isDragging
    /\ draggedPerson # Null
    /\ \E i \in 1..Len(people) :
          /\ people[i].id = draggedPerson.id
          /\ people[i].x # draggedPerson.x

=============================================================================
